---- MODULE Spec2Model ----
(***************************************************************************)
(* Model of src/src/templates/ai-agent/agent.template.py: the BaseAgent    *)
(* lifecycle (start / stop), the queue-driven loop _process_messages and   *)
(* the per-message pipeline process_message, for BaseAgent and the example *)
(* SpecializedAgent.                                                       *)
(*                                                                         *)
(* asyncio runs coroutines cooperatively: a step of the model is the code  *)
(* a task runs between two awaits.  Every await of a collaborator (the     *)
(* safety wrapper, a handler, a tool's arun) and the bounded queue wait is *)
(* a point where the event loop may run another task.                      *)
(***************************************************************************)
EXTENDS Integers, Sequences, FiniteSets, TLC

\* ---------------------------------------------------------------- bounds
\* Number of messages ever put on the queue.
MaxMsgs == 2
\* Number of start() calls, i.e. of _process_messages tasks ever created.
MaxLoops == 2

\* ------------------------------------------------------------ data model
REQUEST == "request"
RESPONSE == "response"
ERROR == "error"
NOTIFICATION == "notification"
MessageType == {REQUEST, RESPONSE, ERROR, NOTIFICATION}

LOW == 1
MEDIUM == 2
HIGH == 3
CRITICAL == 4
Priority == {LOW, MEDIUM, HIGH, CRITICAL}

\* Python's None, as the value of a response that does not exist.
None == [message_type |-> "None"]

\* AgentMessage(...): the timestamp is read by no code and is left out.
AgentMessage(sender, receiver, type, content, cid, prio) ==
    [sender_id |-> sender, receiver_id |-> receiver, message_type |-> type,
     content |-> content, correlation_id |-> cid, priority |-> prio]

\* The identifiers of the example at the end of the source.
AgentId == "agent-001"
Senders == {"user-001"}

\* content["type"] of a request; SpecializedAgent knows "analyze" and "search".
RequestTypes == {"analyze", "search", "bogus"}
\* The priorities the enqueued messages are drawn from.
PrioritySample == {LOW, CRITICAL}

\* The (kind, content type) shapes of an inbound message.
Shapes ==
    {<<REQUEST, t>> : t \in RequestTypes}
        \cup {<<k, "none">> : k \in {RESPONSE, ERROR, NOTIFICATION}}

\* config.tools: lists of tools; a tool is its name and whether it has arun.
ToolLists ==
    { <<>>,
      <<[name |-> "search", has_arun |-> TRUE]>>,
      <<[name |-> "search", has_arun |-> FALSE]>> }

AgentConfigs ==
    [agent_id : {AgentId}, safety_enabled : BOOLEAN, memory_enabled : BOOLEAN,
     tools : ToolLists]

AgentClasses == {"BaseAgent", "SpecializedAgent"}

\* What a failing tool raises, as str(e).
ToolFailure == "tool failed"

\* ----------------------------------------------------------------- state
VARIABLES
    config,         \* self.config
    agent_class,    \* the class of the instance
    tools,          \* self.tools: name -> tool
    is_running,     \* self.is_running
    message_queue,  \* self.message_queue, oldest first
    memory,         \* self.memory.chat_memory.messages
    tasks,          \* the _process_messages tasks created by start(), in order
    next_id,        \* number of messages constructed so far
    results,        \* history: what process_message returned, in return order
    handler_calls,  \* history: correlation ids a handler was invoked for
    tool_calls,     \* history: correlation ids a tool was invoked for
    gate_answers,   \* history: <<correlation id, "input" | "output", answer>>
    tool_answers,   \* history: <<correlation id, whether the tool returned>>
    loop_errors,    \* history: correlation ids whose processing raised into
                    \* the loop's `except Exception`
    use_tool_call,  \* a caller's own `await agent.use_tool(...)`
    sent            \* history: the messages send_message was called with; no
                    \* code of the source calls send_message

vars == <<config, agent_class, tools, is_running, message_queue, memory, tasks,
          next_id, results, handler_calls, tool_calls, gate_answers,
          tool_answers, loop_errors, use_tool_call, sent>>

\* Positions of a task inside process_message.
Proc == {"validate_input", "handler", "tool", "validate_output"}

Loops == 1..Len(tasks)

\* No use_tool call has been made by a caller.
NoCall == [pc |-> "idle", tool_name |-> "", result |-> "", invoked |-> FALSE]

\* A task that has been created and has not yet run.
NewTask == [pc |-> "start", message |-> None, response |-> None,
            stop_inflight |-> FALSE]

\* BaseAgent._init_tools: later tools of the same name replace earlier ones.
_init_tools(ts) ==
    [n \in {ts[i].name : i \in 1..Len(ts)} |->
        ts[CHOOSE i \in 1..Len(ts) :
              /\ ts[i].name = n
              /\ \A j \in 1..Len(ts) : ts[j].name = n => j <= i]]

\* BaseAgent.__init__, for the configurations above.  No handler of BaseAgent
\* uses a tool, so a BaseAgent is built with no tools.
Init ==
    /\ config \in AgentConfigs
    /\ agent_class \in AgentClasses
    /\ agent_class = "BaseAgent" => config.tools = <<>>
    /\ tools = _init_tools(config.tools)
    /\ is_running = FALSE
    /\ message_queue = <<>>
    /\ memory = <<>>
    /\ tasks = <<>>
    /\ next_id = 0
    /\ results = <<>>
    /\ handler_calls = {}
    /\ tool_calls = {}
    /\ gate_answers = {}
    /\ tool_answers = {}
    /\ loop_errors = {}
    /\ use_tool_call = NoCall
    /\ sent = {}

\* ----------------------------------------------------- the pipeline
HumanMessage(content) == [role |-> "human", content |-> content]
AIMessage(content) == [role |-> "ai", content |-> content]

\* Mutant of _create_error_response: correlation_id is not passed on, so the
\* dataclass default generates a fresh one.
CreateErrorResponseFreshId(original_message, error) ==
    AgentMessage(AgentId, original_message.sender_id, ERROR,
                 [error |-> error,
                  original_message_id |-> original_message.correlation_id],
                 next_id + 1, MEDIUM)

\* BaseAgent._create_error_response
_create_error_response(original_message, error) ==
    AgentMessage(AgentId, original_message.sender_id, ERROR,
                 [error |-> error,
                  original_message_id |-> original_message.correlation_id],
                 original_message.correlation_id, MEDIUM)

\* Mutant of ResponseMessage: the reply copies the kind of the request.
ResponseMessageEchoKind(message, result) ==
    AgentMessage(AgentId, message.sender_id, message.message_type, result,
                 message.correlation_id, MEDIUM)

\* The AgentMessage SpecializedAgent._handle_request returns for `result`.
ResponseMessage(message, result) ==
    AgentMessage(AgentId, message.sender_id, RESPONSE, result,
                 message.correlation_id, MEDIUM)

\* The outcome of running process_message from one await to the next one, or
\* to its return: where the task is now, the response it holds, the memory
\* log, and the collaborators ("handler", "tool") it invoked on the way.
Outcome(pc, response, mem, calls) ==
    [pc |-> pc, response |-> response, memory |-> mem, calls |-> calls]

\* Mutant of Raise: process_message has no except branch, the exception
\* leaves it.
RaiseEscapes(message, error, mem, calls) ==
    Outcome("raise", None, mem, calls)

\* Mutant of Raise: the Error goes through output validation and the memory
\* log like a response.
RaiseRevalidates(message, error, mem, calls) ==
    IF config.safety_enabled
    THEN Outcome("validate_output", _create_error_response(message, error),
                 mem, calls)
    ELSE Outcome("return", _create_error_response(message, error),
                 IF config.memory_enabled
                 THEN Append(mem, AIMessage([error |-> error,
                          original_message_id |-> message.correlation_id]))
                 ELSE mem,
                 calls)

\* Mutant of Raise: the failure takes the input entry of the message out of
\* the memory log again.
RaiseRollsBack(message, error, mem, calls) ==
    Outcome("return", _create_error_response(message, error),
            SelectSeq(mem, LAMBDA e : e # HumanMessage(message.content)),
            calls)

\* process_message, the except branch: any exception becomes the result.
Raise(message, error, mem, calls) ==
    Outcome("return", _create_error_response(message, error), mem, calls)

\* process_message, "Store response in memory" and the return.
RecordOutput(response, mem, calls) ==
    Outcome("return", response,
            IF response # None /\ config.memory_enabled
            THEN Append(mem, AIMessage(response.content)) ELSE mem,
            calls)

\* process_message, "Validate output": awaits validate_output when there is a
\* response and a safety wrapper.
CheckOutput(response, mem, calls) ==
    IF response # None /\ config.safety_enabled
    THEN Outcome("validate_output", response, mem, calls)
    ELSE RecordOutput(response, mem, calls)

\* Mutant of AfterInputCheck: every kind that is not a request goes to the
\* notification handler.
AfterInputCheckDispatchesAll(message, mem) ==
    Outcome("handler", None,
            IF config.memory_enabled
            THEN Append(mem, HumanMessage(message.content)) ELSE mem,
            {"handler"})

\* process_message after the input validation: "Store in memory if enabled"
\* and the branch on message_type, up to the await of the handler.
AfterInputCheck(message, mem) ==
    LET mem1 == IF config.memory_enabled
                THEN Append(mem, HumanMessage(message.content)) ELSE mem
    IN  IF message.message_type \in {REQUEST, NOTIFICATION}
        THEN Outcome("handler", None, mem1, {"handler"})
        ELSE CheckOutput(None, mem1, {})

\* Mutant of InputChecked: the input is stored in memory before it is checked.
InputCheckedStoresFirst(message, mem, accepted) ==
    IF accepted
    THEN AfterInputCheck(message, mem)
    ELSE Raise(message, "Message failed safety validation",
               IF config.memory_enabled
               THEN Append(mem, HumanMessage(message.content)) ELSE mem,
               {})

\* process_message, "Validate input": validate_input has answered `accepted`.
InputChecked(message, mem, accepted) ==
    IF accepted
    THEN AfterInputCheck(message, mem)
    ELSE Raise(message, "Message failed safety validation", mem, {})

\* process_message entered with `message`: awaits validate_input when there is
\* a safety wrapper.
EnterProcess(message, mem) ==
    IF config.safety_enabled
    THEN Outcome("validate_input", None, mem, {})
    ELSE AfterInputCheck(message, mem)

\* Mutant of use_tool: the registry is not tested; an unknown name is run as
\* if it were a tool without arun.
UseToolUnchecked(tool_name, tool_ok) ==
    IF tool_name \in DOMAIN tools /\ tools[tool_name].has_arun
    THEN [pc |-> "arun", tool_name |-> tool_name, result |-> "",
          invoked |-> TRUE]
    ELSE IF tool_ok
    THEN [pc |-> "returned", tool_name |-> tool_name, result |-> "results",
          invoked |-> TRUE]
    ELSE [pc |-> "raised", tool_name |-> tool_name, result |-> ToolFailure,
          invoked |-> TRUE]

\* BaseAgent.use_tool up to its first await: an unregistered name raises; a
\* tool with arun is awaited; a tool without arun runs (tool.run) inside the
\* caller's step and returns (tool_ok) or raises.  `invoked` tells whether
\* the tool was called.
use_tool(tool_name, tool_ok) ==
    IF tool_name \notin DOMAIN tools
    THEN [pc |-> "raised", tool_name |-> tool_name,
          result |-> "Tool " \o tool_name \o " not found", invoked |-> FALSE]
    ELSE IF tools[tool_name].has_arun
    THEN [pc |-> "arun", tool_name |-> tool_name, result |-> "",
          invoked |-> TRUE]
    ELSE IF tool_ok
    THEN [pc |-> "returned", tool_name |-> tool_name, result |-> "results",
          invoked |-> TRUE]
    ELSE [pc |-> "raised", tool_name |-> tool_name, result |-> ToolFailure,
          invoked |-> TRUE]

\* SpecializedAgent._perform_search up to the await of arun, or to its result.
_perform_search(message, mem, tool_ok) ==
    IF "search" \in DOMAIN tools
    THEN LET call == use_tool("search", tool_ok)
             calls == IF call.invoked THEN {"tool"} ELSE {}
         IN  IF call.pc = "arun"
             THEN Outcome("tool", None, mem, calls)
             ELSE IF call.pc = "returned"
             THEN CheckOutput(
                      ResponseMessage(message,
                                      [search_results |-> call.result]),
                      mem, calls)
             ELSE Raise(message, call.result, mem, calls)
    ELSE CheckOutput(
             ResponseMessage(message, [error |-> "Search tool not available"]),
             mem, {})

\* SpecializedAgent._handle_request
Specialized_handle_request(message, mem, tool_ok) ==
    LET request_type == message.content.type
    IN  IF request_type = "analyze"
        THEN CheckOutput(
                 ResponseMessage(message, [analysis |-> "completed",
                                           results |-> <<>>]),
                 mem, {})
        ELSE IF request_type = "search"
        THEN _perform_search(message, mem, tool_ok)
        ELSE CheckOutput(
                 ResponseMessage(message,
                     [error |-> "Unknown request type: " \o request_type]),
                 mem, {})

\* BaseAgent._handle_request raises NotImplementedError, whose str() is "".
Base_handle_request(message, mem) ==
    Raise(message, "", mem, {})

\* The handler awaited by process_message runs: _handle_notification returns
\* None; _handle_request is that of the instance's class.
HandlerRuns(message, mem, tool_ok) ==
    IF message.message_type = NOTIFICATION
    THEN CheckOutput(None, mem, {})
    ELSE IF agent_class = "SpecializedAgent"
         THEN Specialized_handle_request(message, mem, tool_ok)
         ELSE Base_handle_request(message, mem)

\* use_tool after `await tool.arun(...)`: the result, or the tool's exception
\* re-raised through _perform_search and _handle_request into process_message.
ToolReturns(message, mem, tool_ok) ==
    IF tool_ok
    THEN CheckOutput(ResponseMessage(message, [search_results |-> "results"]),
                     mem, {})
    ELSE Raise(message, ToolFailure, mem, {})

\* Mutant of OutputChecked: the response is stored in memory before it is
\* checked.
OutputCheckedStoresFirst(message, response, mem, accepted) ==
    IF accepted
    THEN RecordOutput(response, mem, {})
    ELSE Raise(message, "Response failed safety validation",
               IF config.memory_enabled
               THEN Append(mem, AIMessage(response.content)) ELSE mem,
               {})

\* process_message after validate_output has answered `accepted`.
OutputChecked(message, response, mem, accepted) ==
    IF accepted
    THEN RecordOutput(response, mem, {})
    ELSE Raise(message, "Response failed safety validation", mem, {})

\* ------------------------------------------------------ the dispatch loop
\* Mutant of LoopTest: `while True`.
LoopTestForever == "wait"

\* `while self.is_running`: the task waits on the queue, or ends.
LoopTest == IF is_running THEN "wait" ELSE "done"

\* Mutant of AfterProcess: an Error result ends the loop.
AfterProcessStopsOnError(response) ==
    IF response.message_type = ERROR THEN "done" ELSE LoopTest

\* _process_messages after `await self.process_message(message)` returned
\* `response`: the value is dropped and the loop tests is_running again.
AfterProcess(response) == LoopTest

\* Task l takes the outcome o of a step of process_message on message m: the
\* next await ("validate_input", "handler", "tool", "validate_output"), the
\* return of a value, or ("raise") an exception that leaves process_message
\* and is caught and logged by the loop's `except Exception`.
Take(l, m, o) ==
    /\ memory' = o.memory
    /\ handler_calls' = IF "handler" \in o.calls
                        THEN handler_calls \cup {m.correlation_id}
                        ELSE handler_calls
    /\ tool_calls' = IF "tool" \in o.calls
                     THEN tool_calls \cup {m.correlation_id}
                     ELSE tool_calls
    /\ loop_errors' = IF o.pc = "raise"
                      THEN loop_errors \cup {m.correlation_id}
                      ELSE loop_errors
    /\ IF o.pc = "return"
       THEN /\ results' = Append(results,
                              [message |-> m, response |-> o.response, by |-> l,
                               stop_inflight |-> tasks[l].stop_inflight])
            /\ tasks' = [tasks EXCEPT ![l] =
                            [pc |-> AfterProcess(o.response), message |-> None,
                             response |-> None, stop_inflight |-> FALSE]]
       ELSE IF o.pc = "raise"
       THEN /\ results' = results
            /\ tasks' = [tasks EXCEPT ![l] =
                            [pc |-> LoopTest, message |-> None,
                             response |-> None, stop_inflight |-> FALSE]]
       ELSE /\ results' = results
            /\ tasks' = [tasks EXCEPT ![l] =
                            [pc |-> o.pc, message |-> m,
                             response |-> o.response,
                             stop_inflight |-> tasks[l].stop_inflight]]

\* BaseAgent.start
Start ==
    /\ Len(tasks) < MaxLoops
    /\ is_running' = TRUE
    /\ tasks' = Append(tasks, NewTask)
    /\ UNCHANGED <<config, agent_class, tools, message_queue, memory, next_id,
                   results, handler_calls, tool_calls,
                   gate_answers, tool_answers, loop_errors, use_tool_call,
                   sent>>

\* Mutant of Stop: stop() also cancels the tasks.
StopCancels ==
    /\ is_running' = FALSE
    /\ tasks' = [l \in Loops |->
                    [pc |-> "done", message |-> None, response |-> None,
                     stop_inflight |-> FALSE]]
    /\ UNCHANGED <<config, agent_class, tools, message_queue, memory, next_id,
                   results, handler_calls, tool_calls,
                   gate_answers, tool_answers, loop_errors, use_tool_call,
                   sent>>

\* BaseAgent.stop; stop_inflight remembers the tasks that were inside
\* process_message at the call.
Stop ==
    /\ is_running' = FALSE
    /\ tasks' = [l \in Loops |->
                    [tasks[l] EXCEPT !.stop_inflight =
                        @ \/ tasks[l].pc \in Proc]]
    /\ UNCHANGED <<config, agent_class, tools, message_queue, memory, next_id,
                   results, handler_calls, tool_calls,
                   gate_answers, tool_answers, loop_errors, use_tool_call,
                   sent>>

\* A caller constructs a message and puts it on the queue
\* (`await agent.message_queue.put(test_message)`).
Enqueue(sender, shape, prio) ==
    /\ next_id < MaxMsgs
    /\ next_id' = next_id + 1
    /\ message_queue' = Append(message_queue,
           AgentMessage(sender, AgentId, shape[1],
                        [type |-> shape[2], data |-> next_id + 1],
                        next_id + 1, prio))
    /\ UNCHANGED <<config, agent_class, tools, is_running, memory, tasks,
                   results, handler_calls, tool_calls,
                   gate_answers, tool_answers, loop_errors, use_tool_call,
                   sent>>

\* A created task runs for the first time: the first `while self.is_running`.
LoopBegin(l) ==
    /\ tasks[l].pc = "start"
    /\ tasks' = [tasks EXCEPT ![l].pc = LoopTest]
    /\ UNCHANGED <<config, agent_class, tools, is_running, message_queue,
                   memory, next_id, results, handler_calls, tool_calls,
                   gate_answers, tool_answers, loop_errors, use_tool_call,
                   sent>>

\* Mutant of Timeout: the TimeoutError ends the loop.
TimeoutEnds(l) ==
    /\ tasks[l].pc = "wait"
    /\ message_queue = <<>>
    /\ tasks' = [tasks EXCEPT ![l].pc = "done"]
    /\ UNCHANGED <<config, agent_class, tools, is_running, message_queue,
                   memory, next_id, results, handler_calls, tool_calls,
                   gate_answers, tool_answers, loop_errors, use_tool_call,
                   sent>>

\* wait_for(queue.get(), timeout=1.0) expires on an empty queue: TimeoutError,
\* `continue`, and the loop tests is_running again.
Timeout(l) ==
    /\ tasks[l].pc = "wait"
    /\ message_queue = <<>>
    /\ tasks' = [tasks EXCEPT ![l].pc = LoopTest]
    /\ UNCHANGED <<config, agent_class, tools, is_running, message_queue,
                   memory, next_id, results, handler_calls, tool_calls,
                   gate_answers, tool_answers, loop_errors, use_tool_call,
                   sent>>

\* Mutant of Dequeue: the message is read and left on the queue.
DequeueKeeps(l) ==
    /\ tasks[l].pc = "wait"
    /\ message_queue # <<>>
    /\ message_queue' = message_queue
    /\ Take(l, Head(message_queue), EnterProcess(Head(message_queue), memory))
    /\ UNCHANGED <<config, agent_class, tools, is_running, next_id,
                   gate_answers, tool_answers, use_tool_call, sent>>

\* wait_for(queue.get()) returns the oldest message and process_message is
\* entered with it.
Dequeue(l) ==
    /\ tasks[l].pc = "wait"
    /\ message_queue # <<>>
    /\ message_queue' = Tail(message_queue)
    /\ Take(l, Head(message_queue), EnterProcess(Head(message_queue), memory))
    /\ UNCHANGED <<config, agent_class, tools, is_running, next_id,
                   gate_answers, tool_answers, use_tool_call, sent>>

\* SafetyWrapper.validate_input answers; the wrapper is the seam for a policy,
\* so both answers are possible.
ValidateInput(l) ==
    /\ tasks[l].pc = "validate_input"
    /\ \E accepted \in BOOLEAN :
          /\ Take(l, tasks[l].message,
                  InputChecked(tasks[l].message, memory, accepted))
          /\ gate_answers' = gate_answers \cup
                 {<<tasks[l].message.correlation_id, "input", accepted>>}
    /\ UNCHANGED <<config, agent_class, tools, is_running, message_queue,
                   next_id, tool_answers, use_tool_call, sent>>

\* The awaited handler runs up to its next await or to its end.
Handler(l) ==
    /\ tasks[l].pc = "handler"
    /\ \E tool_ok \in BOOLEAN :
          LET o == HandlerRuns(tasks[l].message, memory, tool_ok)
          IN  /\ Take(l, tasks[l].message, o)
              /\ tool_answers' =
                     IF "tool" \in o.calls /\ o.pc # "tool"
                     THEN tool_answers \cup
                             {<<tasks[l].message.correlation_id, tool_ok>>}
                     ELSE tool_answers
    /\ UNCHANGED <<config, agent_class, tools, is_running, message_queue,
                   next_id, gate_answers, use_tool_call, sent>>

\* `await tool.arun(**kwargs)` ends, with a result or an exception.
ToolDone(l) ==
    /\ tasks[l].pc = "tool"
    /\ \E tool_ok \in BOOLEAN :
          /\ Take(l, tasks[l].message,
                  ToolReturns(tasks[l].message, memory, tool_ok))
          /\ tool_answers' = tool_answers \cup
                 {<<tasks[l].message.correlation_id, tool_ok>>}
    /\ UNCHANGED <<config, agent_class, tools, is_running, message_queue,
                   next_id, gate_answers, use_tool_call, sent>>

\* SafetyWrapper.validate_output answers.
ValidateOutput(l) ==
    /\ tasks[l].pc = "validate_output"
    /\ \E accepted \in BOOLEAN :
          /\ Take(l, tasks[l].message,
                  OutputChecked(tasks[l].message, tasks[l].response, memory,
                                accepted))
          /\ gate_answers' = gate_answers \cup
                 {<<tasks[l].message.correlation_id, "output", accepted>>}
    /\ UNCHANGED <<config, agent_class, tools, is_running, message_queue,
                   next_id, tool_answers, use_tool_call, sent>>

Next ==
    \/ Start
    \/ Stop
    \/ \E sender \in Senders, shape \in Shapes, prio \in PrioritySample :
          Enqueue(sender, shape, prio)
    \/ \E l \in Loops : LoopBegin(l)
    \/ \E l \in Loops : Timeout(l)
    \/ \E l \in Loops : Dequeue(l)
    \/ \E l \in Loops : ValidateInput(l)
    \/ \E l \in Loops : Handler(l)
    \/ \E l \in Loops : ToolDone(l)
    \/ \E l \in Loops : ValidateOutput(l)

Spec == Init /\ [][Next]_vars

\* The name a caller gives to use_tool: one that no configuration registers.
ToolNames == {"missing"}

\* A caller awaits agent.use_tool(tool_name) itself, outside the pipeline.
\* use_tool keeps no state of its own, so one call of the caller is followed.
UseTool(tool_name) ==
    /\ use_tool_call.pc = "idle"
    /\ \E tool_ok \in BOOLEAN :
          use_tool_call' = use_tool(tool_name, tool_ok)
    /\ UNCHANGED <<config, agent_class, tools, is_running, message_queue,
                   memory, tasks, next_id, results, handler_calls, tool_calls,
                   gate_answers, tool_answers, loop_errors, sent>>

\* The agent with a caller that also calls use_tool directly.
NextUseTool ==
    \/ Next
    \/ \E tool_name \in ToolNames : UseTool(tool_name)

SpecUseTool == Init /\ [][NextUseTool]_vars

\* A step of the _process_messages task l.
LoopStep(l) ==
    /\ l \in Loops
    /\ \/ LoopBegin(l)
       \/ Timeout(l)
       \/ Dequeue(l)
       \/ ValidateInput(l)
       \/ Handler(l)
       \/ ToolDone(l)
       \/ ValidateOutput(l)

\* The event loop runs every task that can run, the queue wait ends after a
\* second at the latest, and the awaited collaborators return or raise.
SpecFair == Spec /\ \A l \in 1..MaxLoops : WF_vars(LoopStep(l))

\* ------------------------------------------------------------ properties
\* The tasks created by start() that have not ended.
LiveLoops == {l \in Loops : tasks[l].pc # "done"}

\* The tasks that are inside process_message.
Processing == {l \in Loops : tasks[l].pc \in Proc}

\* Correlation ids of the messages process_message has returned for.
Returned == {results[i].message.correlation_id : i \in 1..Len(results)}

\* Correlation ids of the messages process_message has been entered with.
Begun == Returned \cup {tasks[l].message.correlation_id : l \in Processing}

\* The step appends to results what process_message returned to task l.
Returns(l) ==
    /\ Len(results') = Len(results) + 1
    /\ results'[Len(results')].by = l

IsError(response) == response.message_type = ERROR

\* C1: start() is idempotent: a start() called while the agent is already
\* running creates no second _process_messages task.
C1_StartIdempotent ==
    [][is_running => Len(tasks') = Len(tasks)]_vars

\* C2: in every reachable state at most one dequeued message is inside
\* process_message.
C2_OneMessageAtATime == Cardinality(Processing) <= 1

\* C3: once stop() has set is_running to False (and start() has not been called
\* again) no message is taken from the queue into process_message.
C3_NoDequeueAfterStop ==
    [][~is_running => Len(message_queue') >= Len(message_queue)]_vars

\* C4: stop() never aborts in-flight processing: a task inside process_message
\* stays inside it, with the same message, until process_message returns a
\* result for that message to this task; the loop ends only at its own test of
\* is_running.
C4_StopNeverAborts ==
    [][\A l \in Loops :
          tasks[l].pc \in Proc =>
              \/ /\ tasks'[l].pc \in Proc
                 /\ tasks'[l].message = tasks[l].message
              \/ /\ Returns(l)
                 /\ results'[Len(results')].message = tasks[l].message]_vars

C4_Witness ==
    \E i \in 1..Len(results) :
        /\ results[i].stop_inflight
        /\ tasks[results[i].by].pc = "done"

\* C5: messages are processed in submission order whatever their priorities:
\* when the processing of a message has begun, every message enqueued before
\* it (correlation ids count the enqueues) has already been completed.
C5_SubmissionOrder ==
    \A b \in Begun : \A a \in 1..(b - 1) : a \in Returned

\* C6: every result the pipeline produced for a dequeued message has been
\* handed to send_message.
C6_ResultsAreSent ==
    \A i \in 1..Len(results) :
        results[i].response # None => results[i].response \in sent

\* C7: process_message returns None, a Response or an Error, never a Request
\* or a Notification.
C7_ResultKinds ==
    \A i \in 1..Len(results) :
        \/ results[i].response = None
        \/ results[i].response.message_type \in {RESPONSE, ERROR}

C7_Witness ==
    \E i, j \in 1..Len(results) :
        /\ results[i].message.message_type = REQUEST
        /\ results[i].response.message_type = RESPONSE
        /\ results[j].message.message_type = NOTIFICATION
        /\ results[j].response = None

\* C8: an Error returned for a message m carries m's correlation id, as its
\* correlation_id and as content.original_message_id, is sent by the agent and
\* is addressed to m's sender.
C8_ErrorCorrelation ==
    \A i \in 1..Len(results) :
        IsError(results[i].response) =>
            /\ results[i].response.correlation_id
                   = results[i].message.correlation_id
            /\ results[i].response.content.original_message_id
                   = results[i].message.correlation_id
            /\ results[i].response.sender_id = AgentId
            /\ results[i].response.receiver_id = results[i].message.sender_id

C8_Witness ==
    \E i \in 1..Len(results) :
        /\ IsError(results[i].response)
        /\ results[i].message.correlation_id > 1

\* validate_input has rejected the message with correlation id c.
InputRejected(c) == <<c, "input", FALSE>> \in gate_answers

\* C9: a message validate_input rejects gets the Error "Message failed safety
\* validation" as its result, at the step of the rejection; no handler and no
\* tool is ever invoked for it, the step leaves the memory log unchanged and
\* the log never holds an entry for its content.
C9_RejectedInput ==
    /\ [](/\ \A l \in Processing :
               ~InputRejected(tasks[l].message.correlation_id)
          /\ \A i \in 1..Len(results) :
               InputRejected(results[i].message.correlation_id) =>
                   /\ IsError(results[i].response)
                   /\ results[i].response.content.error
                          = "Message failed safety validation"
                   /\ results[i].message.correlation_id \notin handler_calls
                   /\ results[i].message.correlation_id \notin tool_calls
                   /\ \A k \in 1..Len(memory) :
                          memory[k] # HumanMessage(results[i].message.content))
    /\ [][\A c \in 1..next_id :
            (InputRejected(c)' /\ ~InputRejected(c)) =>
                /\ memory' = memory
                /\ handler_calls' = handler_calls
                /\ tool_calls' = tool_calls
                /\ \E l \in Loops :
                      /\ Returns(l)
                      /\ results'[Len(results')].message.correlation_id = c]_vars

C9_Witness ==
    \E c \in 1..next_id :
        /\ InputRejected(c)
        /\ config.memory_enabled
        /\ memory # <<>>

\* C10: a pipeline failure never ends the loop: while the agent is running, a
\* task to which process_message has returned (an Error or anything else)
\* waits on the queue again, and a task ends only when is_running is False.
C10_LoopSurvivesFailure ==
    [][\A l \in Loops :
          /\ (Returns(l) /\ is_running) => tasks'[l].pc = "wait"
          /\ (tasks[l].pc # "done" /\ tasks'[l].pc = "done") => ~is_running
      ]_vars

C10_Witness ==
    \E i, j \in 1..Len(results) :
        /\ i < j
        /\ results[i].by = results[j].by
        /\ IsError(results[i].response)
        /\ results[j].response.message_type = RESPONSE

\* validate_output has rejected the response to the message with id c.
OutputRejected(c) == <<c, "output", FALSE>> \in gate_answers

\* The tool invoked for the message with correlation id c has raised.
ToolFailed(c) == <<c, FALSE>> \in tool_answers

\* The request handler invoked for the returned message m is the one of
\* BaseAgent, which is not implemented.
HandlerNotImplemented(m) ==
    /\ agent_class = "BaseAgent"
    /\ m.message_type = REQUEST
    /\ m.correlation_id \in handler_calls

\* The error text of the failure of the returned message m, "none" if its
\* pipeline has not failed.
FailureText(m) ==
    IF InputRejected(m.correlation_id)
    THEN "Message failed safety validation"
    ELSE IF OutputRejected(m.correlation_id)
    THEN "Response failed safety validation"
    ELSE IF ToolFailed(m.correlation_id) THEN ToolFailure
    ELSE IF HandlerNotImplemented(m) THEN ""
    ELSE "none"

\* C11: every pipeline failure (input rejected, output rejected, tool failure,
\* handler not implemented) becomes one Error message that process_message
\* returns, with the failure's text; process_message never raises into the
\* loop's `except Exception`, and a failed message is no longer in flight.
C11_FailuresBecomeErrors ==
    /\ loop_errors = {}
    /\ \A l \in Processing :
          /\ ~InputRejected(tasks[l].message.correlation_id)
          /\ ~OutputRejected(tasks[l].message.correlation_id)
          /\ ~ToolFailed(tasks[l].message.correlation_id)
    /\ \A i \in 1..Len(results) :
          /\ FailureText(results[i].message) # "none" =>
                /\ IsError(results[i].response)
                /\ results[i].response.content.error
                       = FailureText(results[i].message)
          /\ \A j \in 1..Len(results) :
                results[j].message = results[i].message => j = i

C11_Witness ==
    \E i, j \in 1..Len(results) :
        /\ ToolFailed(results[i].message.correlation_id)
        /\ IsError(results[i].response)
        /\ OutputRejected(results[j].message.correlation_id)
        /\ IsError(results[j].response)

\* The caller's use_tool call was made with a name that is not registered.
UnregisteredCall ==
    /\ use_tool_call.pc # "idle"
    /\ use_tool_call.tool_name \notin DOMAIN tools

\* C12: use_tool with a name that is not in the registry fails with "Tool
\* <name> not found" and invokes no tool, and the step of the call leaves the
\* memory log, the queue, the running state and the loops as they were.
C12_UnregisteredTool ==
    /\ [](UnregisteredCall =>
            /\ use_tool_call.pc = "raised"
            /\ use_tool_call.result
                   = "Tool " \o use_tool_call.tool_name \o " not found"
            /\ ~use_tool_call.invoked)
    /\ [][(use_tool_call.pc = "idle" /\ UnregisteredCall') =>
            /\ memory' = memory
            /\ message_queue' = message_queue
            /\ is_running' = is_running
            /\ tasks' = tasks
            /\ tool_calls' = tool_calls]_vars

C12_Witness ==
    /\ UnregisteredCall
    /\ use_tool_call.tool_name = "missing"
    /\ "search" \in DOMAIN tools
    /\ memory # <<>>
    /\ message_queue # <<>>
    /\ is_running

\* The entries of the memory log with the given role.
Entries(role) == {k \in 1..Len(memory) : memory[k].role = role}

\* The results that are a Response.
ResponsesReturned ==
    {i \in 1..Len(results) : results[i].response.message_type = RESPONSE}

\* C13: a response that validate_output rejects is replaced by the Error
\* "Response failed safety validation" as the result, at the step of the
\* rejection; the rejected response is not returned, the step writes nothing to
\* the memory log, and the log holds response entries only for the responses
\* that were returned.
C13_RejectedOutput ==
    /\ [](/\ \A l \in Processing :
               ~OutputRejected(tasks[l].message.correlation_id)
          /\ \A i \in 1..Len(results) :
               OutputRejected(results[i].message.correlation_id) =>
                   /\ IsError(results[i].response)
                   /\ results[i].response.content.error
                          = "Response failed safety validation"
          /\ Cardinality(Entries("ai")) =
                 IF config.memory_enabled
                 THEN Cardinality(ResponsesReturned) ELSE 0)
    /\ [][\A l \in Loops :
            (tasks[l].pc = "validate_output"
               /\ <<tasks[l].message.correlation_id, "output", FALSE>>
                      \in gate_answers') =>
                /\ memory' = memory
                /\ Returns(l)
                /\ results'[Len(results')].message = tasks[l].message
                /\ results'[Len(results')].response # tasks[l].response
                /\ IsError(results'[Len(results')].response)]_vars

C13_Witness ==
    \E i \in 1..Len(results) :
        /\ OutputRejected(results[i].message.correlation_id)
        /\ config.memory_enabled
        /\ Entries("ai") # {}

\* How often the message with correlation id c is on the queue, inside
\* process_message, and among the messages process_message was left for.
TimesQueued(c) ==
    Cardinality({k \in 1..Len(message_queue) :
                    message_queue[k].correlation_id = c})
TimesInFlight(c) ==
    Cardinality({l \in Processing : tasks[l].message.correlation_id = c})
TimesDone(c) ==
    Cardinality({i \in 1..Len(results) :
                    results[i].message.correlation_id = c})
        + (IF c \in loop_errors THEN 1 ELSE 0)

\* C14: every enqueued message is consumed exactly once: at any time it is
\* either still on the queue (once), or inside process_message in one task, or
\* has been processed once; it is never handed to process_message twice and
\* never leaves the queue without being handed to process_message.
C14_ConsumedExactlyOnce ==
    \A c \in 1..next_id :
        TimesQueued(c) + TimesInFlight(c) + TimesDone(c) = 1

C14_Witness ==
    /\ Len(results) >= 2
    /\ results[1].by # results[2].by
    /\ message_queue = <<>>

\* The message is of a kind that is not dispatched to a handler.
TerminalKind(m) == m.message_type \in {RESPONSE, ERROR}

\* C15: for a message of kind Response or Error whose input is not rejected no
\* handler and no tool is invoked and process_message returns None; such a
\* message is inside process_message only while validate_input is awaited.
C15_TerminalKinds ==
    /\ \A l \in Processing :
          TerminalKind(tasks[l].message) => tasks[l].pc = "validate_input"
    /\ \A i \in 1..Len(results) :
          TerminalKind(results[i].message) =>
              /\ results[i].message.correlation_id \notin handler_calls
              /\ results[i].message.correlation_id \notin tool_calls
              /\ ~InputRejected(results[i].message.correlation_id) =>
                     results[i].response = None

C15_Witness ==
    \E i, j \in 1..Len(results) :
        /\ results[i].message.message_type = RESPONSE
        /\ results[j].message.message_type = ERROR
        /\ <<results[j].message.correlation_id, "input", TRUE>>
               \in gate_answers
        /\ results[i].response = None
        /\ results[j].response = None

\* The results that are an Error.
ErrorsReturned == {i \in 1..Len(results) : IsError(results[i].response)}

\* C16: the Error of a failed message is the final result of its pipeline and
\* there is one per message: no Error is awaiting validate_output, none is in
\* the memory log, none is on the agent's queue, and the message it answers is
\* neither in flight nor queued again.
C16_ErrorIsFinal ==
    /\ \A l \in Loops :
          tasks[l].pc = "validate_output" => ~IsError(tasks[l].response)
    /\ \A i \in ErrorsReturned :
          /\ \A j \in ErrorsReturned :
                results[j].message = results[i].message => j = i
          /\ \A k \in 1..Len(memory) :
                memory[k].content # results[i].response.content
          /\ \A k \in 1..Len(message_queue) :
                /\ message_queue[k] # results[i].response
                /\ message_queue[k].sender_id # AgentId
          /\ TimesInFlight(results[i].message.correlation_id) = 0
          /\ TimesQueued(results[i].message.correlation_id) = 0

C16_Witness ==
    /\ config.safety_enabled
    /\ config.memory_enabled
    /\ ErrorsReturned # {}
    /\ Entries("ai") # {}
    /\ message_queue = <<>>

\* C17: while the agent runs (start() called, stop() not called) and the event
\* loop is fair to its tasks, every message put on the queue is eventually
\* processed: process_message returns a result for it.  A result stays, so
\* for each correlation id c the agent is again and again in a state where it
\* is stopped, or c is not enqueued yet, or the result for c has been returned.
C17_EventuallyProcessed ==
    \A c \in 1..MaxMsgs :
        []<>(~is_running \/ c > next_id \/ c \in Returned)

C17_Witness ==
    /\ is_running
    /\ Len(results) = MaxMsgs
    /\ \A i \in 1..Len(results) : ~results[i].stop_inflight
    /\ message_queue = <<>>

\* C18: across any sequence of start() and stop() calls at most one
\* _process_messages task is live.  The case of a start() while running is
\* C1's; this is the restart: a step taken while the agent is not running (a
\* start() after stop(), or the first start()) leaves at most one live task.
C18_AtMostOneLiveLoop ==
    [][~is_running => Cardinality(LiveLoops') <= 1]_vars

\* C19: after stop(), with no later start() and a fair event loop, every
\* _process_messages task eventually ends, on an empty and on a non-empty
\* queue: for each task the agent is again and again running, or the task is
\* not created, or it has ended (and an ended task stays ended).  Once every
\* task has ended the messages on the queue stay there.
C19_LoopsEnd ==
    /\ \A l \in 1..MaxLoops :
          []<>(is_running \/ l \notin Loops \/ tasks[l].pc = "done")
    /\ [][/\ \A l \in Loops :
               tasks[l].pc = "done" => tasks'[l].pc = "done"
          /\ (tasks # <<>> /\ LiveLoops = {}) =>
                /\ Len(message_queue') >= Len(message_queue)
                /\ \A k \in 1..Len(message_queue) :
                      message_queue'[k] = message_queue[k]]_vars

C19_Witness ==
    /\ ~is_running
    /\ Len(tasks) = MaxLoops
    /\ LiveLoops = {}
    /\ Len(message_queue) = 1
    /\ Len(results) = 1

\* The input of the message with correlation id c has passed validation, or
\* process_message was entered with it and there is no safety wrapper.
InputPassed(c) ==
    IF config.safety_enabled
    THEN <<c, "input", TRUE>> \in gate_answers
    ELSE c \in Begun

\* The input entries of the memory log for the message with correlation id c.
InputEntries(c) == {k \in Entries("human") : memory[k].content.data = c}

\* C20: with memory enabled the log holds exactly one input entry for every
\* message whose input has passed (none for the others), whatever happens to
\* the message later; no step removes or changes an entry; and the log holds
\* a response entry only for a response that was returned, after the input
\* entry of its message.
C20_NoRollback ==
    /\ [](config.memory_enabled =>
            /\ \A c \in 1..next_id :
                  Cardinality(InputEntries(c)) =
                      IF InputPassed(c) THEN 1 ELSE 0
            /\ Cardinality(Entries("ai")) = Cardinality(ResponsesReturned)
            /\ \A k \in Entries("ai") :
                  \E i \in ResponsesReturned :
                      /\ memory[k].content = results[i].response.content
                      /\ \E j \in InputEntries(
                                     results[i].message.correlation_id) :
                            j < k)
    /\ [][/\ Len(memory') >= Len(memory)
          /\ \A k \in 1..Len(memory) : memory'[k] = memory[k]]_vars

C20_Witness ==
    /\ config.memory_enabled
    /\ config.safety_enabled
    /\ \E i, j \in 1..Len(results) :
          /\ ToolFailed(results[i].message.correlation_id)
          /\ IsError(results[i].response)
          /\ InputEntries(results[i].message.correlation_id) # {}
          /\ OutputRejected(results[j].message.correlation_id)
          /\ InputEntries(results[j].message.correlation_id) # {}

====
